---------------------------- MODULE Spec2Model ----------------------------
(***************************************************************************)
(* Model of printerlinter.linters.defintion.Definition: the redundant-     *)
(* override rule of the printer definition linter.  A lint run constructs  *)
(* a Definition for one target file (loading the chain of documents it     *)
(* inherits from, reading its text and flattening the base document's      *)
(* settings) and then consumes the generator returned by check().          *)
(*                                                                         *)
(* Text (file content, string values) is a sequence of one-character       *)
(* strings.  Names (document names, setting keys, field names) are TLA+    *)
(* strings; NameChars spells them out where they occur in text.            *)
(***************************************************************************)
EXTENDS Integers, Sequences, FiniteSets, TLC

(* Python raises RecursionError at sys.getrecursionlimit() nested calls;   *)
(* the model raises it at this depth.                                      *)
RecursionLimit == 6

(* Widest indentation (in spaces) of an override line of the target file.  *)
MaxIndent == 2

-----------------------------------------------------------------------------
(* Python / JSON values.  A float is held in tenths (n = 105 is 10.5).     *)

PyNone == [t |-> "none", n |-> 0, s |-> <<>>]
PyInt(n) == [t |-> "int", n |-> n, s |-> <<>>]
PyFloat(tenths) == [t |-> "float", n |-> tenths, s |-> <<>>]
PyBool(b) == [t |-> "bool", n |-> IF b THEN 1 ELSE 0, s |-> <<>>]
PyStr(chars) == [t |-> "str", n |-> 0, s |-> chars]

IsNum(v) == v.t \in {"int", "float", "bool"}

Tenths(v) == IF v.t = "float" THEN v.n ELSE 10 * v.n

(* Python's == on two values: numbers compare by value across int, float   *)
(* and bool; text compares with text; a number never equals text.          *)
PyEq(a, b) ==
    IF IsNum(a) /\ IsNum(b) THEN Tenths(a) = Tenths(b)
    ELSE a.t = b.t /\ a = b

Digits == <<"0", "1", "2", "3", "4", "5", "6", "7", "8", "9">>

IsDigit(c) == \E d \in 1..10 : Digits[d] = c

DigitVal(c) == (CHOOSE d \in 1..10 : Digits[d] = c) - 1

AllDigits(chars) == \A i \in 1..Len(chars) : IsDigit(chars[i])

RECURSIVE NatOf(_)
NatOf(chars) ==
    IF chars = <<>> THEN 0
    ELSE 10 * NatOf(SubSeq(chars, 1, Len(chars) - 1)) + DigitVal(chars[Len(chars)])

RECURSIVE DigitsOf(_)
DigitsOf(n) ==
    IF n < 10 THEN <<Digits[n + 1]>>
    ELSE DigitsOf(n \div 10) \o <<Digits[(n % 10) + 1]>>

(* float(text): an optional sign, digits, and optionally a point followed  *)
(* by at most one digit (the tenths grid of the model).  Anything else     *)
(* raises ValueError (ok = FALSE).                                         *)
ParseFloat(chars) ==
    LET neg == Len(chars) > 0 /\ chars[1] = "-"
        body == IF neg THEN Tail(chars) ELSE chars
        dots == {i \in 1..Len(body) : body[i] = "."}
        dot == IF dots = {} THEN Len(body) + 1 ELSE CHOOSE i \in dots : TRUE
        ip == SubSeq(body, 1, dot - 1)
        fp == SubSeq(body, dot + 1, Len(body))
        ok == /\ Cardinality(dots) <= 1
              /\ AllDigits(ip) /\ AllDigits(fp)
              /\ Len(ip) + Len(fp) > 0
              /\ Len(fp) <= 1
        mag == 10 * NatOf(ip) + NatOf(fp)
    IN  IF ok THEN [ok |-> TRUE, tenths |-> IF neg THEN 0 - mag ELSE mag]
        ELSE [ok |-> FALSE, tenths |-> 0]

(* float(v): numbers convert, text is parsed, None raises TypeError.       *)
ToFloat(v) ==
    CASE IsNum(v) -> [ok |-> TRUE, tenths |-> Tenths(v)]
      [] v.t = "str" -> ParseFloat(v.s)
      [] OTHER -> [ok |-> FALSE, tenths |-> 0]

(* str(f) of a float f: always with a point, "10.0", "10.5", "-0.5".       *)
StrOfFloat(tenths) ==
    LET mag == IF tenths < 0 THEN 0 - tenths ELSE tenths
        txt == DigitsOf(mag \div 10) \o <<".">> \o DigitsOf(mag % 10)
    IN  IF tenths < 0 THEN <<"-">> \o txt ELSE txt

(* try: str(float(v)) except Exception: v                                  *)
Normalise(v) ==
    IF ToFloat(v).ok THEN PyStr(StrOfFloat(ToFloat(v).tenths)) ELSE v

-----------------------------------------------------------------------------
(* Dictionaries.  A dict of settings is a sequence of entries in insertion *)
(* order, keys unique; an entry's fields are a sequence of (name, value)   *)
(* pairs; its "children" dict, when present, is kept beside the fields.    *)

Field(name, val) == [name |-> name, val |-> val]

Entry(key, fields) ==
    [key |-> key, fields |-> fields, hasChildren |-> FALSE, children |-> <<>>]

Node(key, fields, children) ==
    [key |-> key, fields |-> fields, hasChildren |-> TRUE, children |-> children]

(* key in d *)
HasKey(d, key) == \E i \in 1..Len(d) : d[i].key = key

(* d[key] *)
Lookup(d, key) == d[CHOOSE i \in 1..Len(d) : d[i].key = key]

Keys(d) == {d[i].key : i \in 1..Len(d)}

(* d |= {key: entry}: replaces in place, else appends.                     *)
DictSet(d, key, entry) ==
    IF HasKey(d, key)
    THEN [i \in 1..Len(d) |-> IF d[i].key = key THEN entry ELSE d[i]]
    ELSE Append(d, entry)

HasField(e, name) == \E i \in 1..Len(e.fields) : e.fields[i].name = name

(* e.get(name, None) *)
FieldGet(e, name) ==
    IF HasField(e, name)
    THEN e.fields[CHOOSE i \in 1..Len(e.fields) : e.fields[i].name = name].val
    ELSE PyNone

(* A parsed document: the fields of the JSON object the linter reads.      *)
Doc(hasInherits, inherits, hasOverrides, overrides, hasSettings, settings) ==
    [hasInherits |-> hasInherits, inherits |-> inherits,
     hasOverrides |-> hasOverrides, overrides |-> overrides,
     hasSettings |-> hasSettings, settings |-> settings]

(* The store self._definitions: (name, doc) pairs in insertion order.      *)
InStore(defs, name) == \E i \in 1..Len(defs) : defs[i].name = name

DocOf(defs, name) == defs[CHOOSE i \in 1..Len(defs) : defs[i].name = name].doc

StoreSet(defs, name, doc) ==
    IF InStore(defs, name)
    THEN [i \in 1..Len(defs) |->
            IF defs[i].name = name THEN [name |-> name, doc |-> doc] ELSE defs[i]]
    ELSE Append(defs, [name |-> name, doc |-> doc])

Roots == {"fdmprinter", "fdmextruder"}

base_def(defs) == IF InStore(defs, "fdmextruder") THEN "fdmextruder" ELSE "fdmprinter"

-----------------------------------------------------------------------------
(* Setting flattener.                                                      *)

RECURSIVE getSetting(_, _), getSettings(_, _)

(* Visits the children but leaves out a node that has any.                 *)
getSettingLeavesOnly(setting, settings) ==
    IF setting.hasChildren THEN getSettings(setting.children, settings)
    ELSE DictSet(settings, setting.key, setting)

(* _getSetting(name, setting, settings): children first, then the node.    *)
getSetting(setting, settings) ==
    DictSet(IF setting.hasChildren THEN getSettings(setting.children, settings)
                                   ELSE settings,
            setting.key, setting)

(* for k, v in items: self._getSetting(k, v, settings)                     *)
getSettings(items, settings) ==
    IF items = <<>> THEN settings
    ELSE getSettings(Tail(items), getSetting(Head(items), settings))

(* The names occurring at any depth of a settings tree, and its nodes.     *)
RECURSIVE TreeNodes(_)
TreeNodes(items) ==
    IF items = <<>> THEN {}
    ELSE LET h == Head(items)
         IN  {h} \cup (IF h.hasChildren THEN TreeNodes(h.children) ELSE {})
                 \cup TreeNodes(Tail(items))

RECURSIVE TreeSize(_)
TreeSize(items) ==
    IF items = <<>> THEN 0
    ELSE 1 + (IF Head(items).hasChildren THEN TreeSize(Head(items).children) ELSE 0)
           + TreeSize(Tail(items))

-----------------------------------------------------------------------------
(* Override resolver.                                                      *)

TypeNumeric == {PyStr(<<"f", "l", "o", "a", "t">>), PyStr(<<"i", "n", "t">>)}

ValueFields == {"default_value", "value"}

(* The tuple _isDefinedInParent returns, with the exception it raised      *)
(* instead (err) and the name of the document whose overrides matched.     *)
Resolved(err, redundant, child_key, child_value, parent, ancestor) ==
    [err |-> err, redundant |-> redundant, child_key |-> child_key,
     child_value |-> child_value, parent |-> parent, ancestor |-> ancestor]

NotRedefined == Resolved("none", FALSE, "", PyNone, <<>>, "")

Raised(err) == Resolved(err, FALSE, "", PyNone, <<>>, "")

(* check_values: the parent's values the child's field is compared with.   *)
CheckValues(parentEntry, child_key) ==
    IF child_key \in ValueFields
    THEN {FieldGet(parentEntry, f) : f \in ValueFields} \ {PyNone}
    ELSE {FieldGet(parentEntry, child_key)}

(* A comparison that normalises whatever the key's type is.                *)
ValuesMatchAlways(is_number, child_key, child_value, check_value) ==
    IF child_key \in ValueFields
    THEN PyEq(Normalise(child_value), Normalise(check_value))
    ELSE PyEq(child_value, check_value)

(* v == cv, after both are normalised when the key is numeric and the      *)
(* field is one of default_value / value.                                  *)
ValuesMatch(is_number, child_key, child_value, check_value) ==
    IF is_number /\ child_key \in ValueFields
    THEN PyEq(Normalise(child_value), Normalise(check_value))
    ELSE PyEq(child_value, check_value)

(* is_number: KeyError when the base's record of the key has no "type".    *)
IsNumberKnown(defs, key) ==
    \/ ~HasKey(DocOf(defs, base_def(defs)).overrides, key)
    \/ HasField(Lookup(DocOf(defs, base_def(defs)).overrides, key), "type")

IsNumber(defs, key) ==
    /\ HasKey(DocOf(defs, base_def(defs)).overrides, key)
    /\ FieldGet(Lookup(DocOf(defs, base_def(defs)).overrides, key), "type")
            \in TypeNumeric

RECURSIVE isDefinedInParent(_, _, _, _, _), matchFields(_, _, _, _, _, _)

(* The for loop over value_dict.items(), from field i on.  The test of     *)
(* "inherits" is made on parent, the ancestor's overrides mapping: it      *)
(* holds only of a setting that is itself called "inherits", and the       *)
(* recursion is then asked for self._definitions[<a dict>] (TypeError).    *)
matchFields(defs, key, value_dict, inherits_from, i, depth) ==
    LET parent == DocOf(defs, inherits_from).overrides
        child_key == value_dict[i].name
        child_value == value_dict[i].val
    IN  IF i > Len(value_dict) THEN NotRedefined
        ELSE IF ~HasKey(parent, key)
        THEN matchFields(defs, key, value_dict, inherits_from, i + 1, depth)
        ELSE IF \E cv \in CheckValues(Lookup(parent, key), child_key) :
                    ValuesMatch(IsNumber(defs, key), child_key, child_value, cv)
        THEN Resolved("none", TRUE, child_key, child_value, parent, inherits_from)
        ELSE IF HasKey(parent, "inherits") THEN Raised("TypeError")
        ELSE matchFields(defs, key, value_dict, inherits_from, i + 1, depth)

(* _isDefinedInParent(key, value_dict, inherits_from), at call depth depth *)
isDefinedInParent(defs, key, value_dict, inherits_from, depth) ==
    IF depth >= RecursionLimit THEN Raised("RecursionError")
    ELSE IF ~InStore(defs, inherits_from) THEN Raised("KeyError")
    ELSE IF ~DocOf(defs, inherits_from).hasOverrides
    THEN IF ~DocOf(defs, inherits_from).hasInherits THEN Raised("KeyError")
         ELSE isDefinedInParent(defs, key, value_dict,
                                DocOf(defs, inherits_from).inherits, depth + 1)
    ELSE IF ~InStore(defs, base_def(defs)) THEN Raised("KeyError")
    ELSE IF ~DocOf(defs, base_def(defs)).hasOverrides THEN Raised("KeyError")
    ELSE IF ~IsNumberKnown(defs, key) THEN Raised("KeyError")
    ELSE matchFields(defs, key, value_dict, inherits_from, 1, depth)

-----------------------------------------------------------------------------
(* The text of the target file.  json.loads(text) is the parsed document;  *)
(* Render writes a document out in one of the layouts a definition file    *)
(* comes in, so that the text read and the document parsed agree.          *)

NameChars(name) ==
    CASE name = "A" -> <<"A">>
      [] name = "B" -> <<"B">>
      [] name = "fdmprinter" -> <<"f", "d", "m", "p", "r", "i", "n", "t", "e", "r">>
      [] name = "fdmextruder" -> <<"f", "d", "m", "e", "x", "t", "r", "u", "d", "e", "r">>
      [] name = "speed" -> <<"s", "p", "e", "e", "d">>
      [] name = "wall" -> <<"w", "a", "l", "l">>
      [] name = "label" -> <<"l", "a", "b", "e", "l">>
      [] name = "value" -> <<"v", "a", "l", "u", "e">>
      [] name = "default_value" ->
            <<"d", "e", "f", "a", "u", "l", "t", "_", "v", "a", "l", "u", "e">>
      [] name = "minimum_value" ->
            <<"m", "i", "n", "i", "m", "u", "m", "_", "v", "a", "l", "u", "e">>
      [] name = "inherits" -> <<"i", "n", "h", "e", "r", "i", "t", "s">>
      [] name = "overrides" -> <<"o", "v", "e", "r", "r", "i", "d", "e", "s">>

Quoted(chars) == <<"\"">> \o chars \o <<"\"">>

Spaces(n) == [i \in 1..n |-> " "]

RECURSIVE Join(_, _)
Join(texts, sep) ==
    IF texts = <<>> THEN <<>>
    ELSE IF Len(texts) = 1 THEN texts[1]
    ELSE texts[1] \o sep \o Join(Tail(texts), sep)

RenderValue(v) ==
    CASE v.t = "int" -> IF v.n < 0 THEN <<"-">> \o DigitsOf(0 - v.n) ELSE DigitsOf(v.n)
      [] v.t = "float" -> StrOfFloat(v.n)
      [] v.t = "bool" -> IF v.n = 1 THEN <<"t", "r", "u", "e">>
                                    ELSE <<"f", "a", "l", "s", "e">>
      [] v.t = "str" -> Quoted(v.s)
      [] OTHER -> <<"n", "u", "l", "l">>

RenderField(f) == Quoted(NameChars(f.name)) \o <<":", " ">> \o RenderValue(f.val)

RenderFields(fields) == [i \in 1..Len(fields) |-> RenderField(fields[i])]

(* One override, "key": {fields}, in the layout's style.                   *)
RenderEntry(e, layout) ==
    LET pad == Spaces(layout.indent)
        key == Quoted(NameChars(e.key))
    IN  CASE layout.style = "compact" ->
                key \o <<":", " ", "{">> \o Join(RenderFields(e.fields), <<",", " ">>)
                    \o <<"}">>
          [] layout.style = "lines" ->
                pad \o key \o <<":", " ", "{", " ">>
                    \o Join(RenderFields(e.fields), <<",", " ">>) \o <<" ", "}">>
          [] layout.style = "pretty" ->
                pad \o key \o <<":", "\n">> \o pad \o <<"{", "\n">>
                    \o Join([i \in 1..Len(e.fields) |->
                                pad \o <<" ">> \o RenderField(e.fields[i])],
                            <<",", "\n">>)
                    \o <<"\n">> \o pad \o <<"}">>

(* In the mixed style the first override is written on one line and the   *)
(* others over several.                                                    *)
EntryLayout(layout, i) ==
    IF layout.style # "mixed" THEN layout
    ELSE [style |-> IF i = 1 THEN "lines" ELSE "pretty", indent |-> layout.indent]

RenderOverrides(overrides, layout) ==
    LET entries == [i \in 1..Len(overrides) |->
                        RenderEntry(overrides[i], EntryLayout(layout, i))]
    IN  IF layout.style = "compact"
        THEN <<"{">> \o Join(entries, <<",", " ">>) \o <<"}">>
        ELSE <<"{", "\n">> \o Join(entries, <<",", "\n">>) \o <<"\n", "}">>

Render(doc, layout) ==
    LET inh == IF doc.hasInherits
               THEN <<Quoted(NameChars("inherits")) \o <<":", " ">>
                        \o Quoted(NameChars(doc.inherits))>>
               ELSE <<>>
        ovr == IF doc.hasOverrides
               THEN <<Quoted(NameChars("overrides")) \o <<":", " ">>
                        \o RenderOverrides(doc.overrides, layout)>>
               ELSE <<>>
    IN  IF layout.style = "compact"
        THEN <<"{">> \o Join(inh \o ovr, <<",", " ">>) \o <<"}">>
        ELSE <<"{", "\n">> \o Join(inh \o ovr, <<",", "\n">>) \o <<"\n", "}", "\n">>

(* The compact style has no indentation; the styles that spread an        *)
(* override over several lines are indented by one space.                  *)
Layouts ==
    {[style |-> "compact", indent |-> 0]}
    \cup {[style |-> "lines", indent |-> n] : n \in 0..MaxIndent}
    \cup {[style |-> st, indent |-> 1] : st \in {"pretty", "mixed"}}

-----------------------------------------------------------------------------
(* The search of the override block in the text: the pattern is any run   *)
(* of characters within a line, then the group (the quoted key and,        *)
(* lazily, anything up to a brace), the opening brace, lazily anything up  *)
(* to a closing brace, the closing brace and an optional comma.            *)
(* Positions are 1-based here; spans are reported 0-based as Python does.  *)

SetMin(S) == CHOOSE x \in S : \A y \in S : x <= y

SetMax(S) == CHOOSE x \in S : \A y \in S : x >= y

(* The quoted key stands at position g of the text.                        *)
KeyAt(text, key, g) ==
    LET q == Quoted(NameChars(key))
    IN  g + Len(q) - 1 <= Len(text) /\ SubSeq(text, g, g + Len(q) - 1) = q

(* The lazy run of the group stops at the first "{" after the key.         *)
Opens(text, key, g) ==
    {b \in (g + Len(NameChars(key)) + 2)..Len(text) : text[b] = "{"}

(* The lazy run of the body stops at the first "}" after that "{".         *)
Closes(text, b) == {c \in (b + 1)..Len(text) : text[c] = "}"}

(* The part of the pattern from the group on matches at g.                 *)
TailMatches(text, key, g) ==
    /\ KeyAt(text, key, g)
    /\ Opens(text, key, g) # {}
    /\ Closes(text, SetMin(Opens(text, key, g))) # {}

(* Where the group can stand: every place the rest of the pattern         *)
(* matches from.                                                           *)
Groups(text, key) == {g \in 1..Len(text) : TailMatches(text, key, g)}

(* The leading run reaches back from g to the start of its line, never     *)
(* across a line break.                                                    *)
LineStart(text, g) == SetMax({1} \cup {i + 1 : i \in {j \in 1..(g - 1) : text[j] = "\n"}})

(* found: start and end are span(0), group is span(1)[0].  The search      *)
(* takes the leftmost start, the start of the first line a group can stand *)
(* on; the greedy leading run then takes the last group of that line.      *)
Search(text, key) ==
    IF Groups(text, key) = {} THEN [found |-> FALSE, start |-> 0, group |-> 0, end |-> 0]
    ELSE LET p == LineStart(text, SetMin(Groups(text, key)))
             g == SetMax({h \in Groups(text, key) : LineStart(text, h) = p})
             c == SetMin(Closes(text, SetMin(Opens(text, key, g))))
             e == IF c < Len(text) /\ text[c + 1] = "," THEN c + 1 ELSE c
         IN  [found |-> TRUE, start |-> p - 1, group |-> g - 1, end |-> e]

(* len(text.splitlines()) *)
SplitLines(text) ==
    Cardinality({i \in 1..Len(text) : text[i] = "\n"})
        + (IF text # <<>> /\ text[Len(text)] # "\n" THEN 1 ELSE 0)

-----------------------------------------------------------------------------
(* The files a run may find.  A path is a directory (its components) and   *)
(* the document name of the file <name>.def.json in it.                    *)

DefinitionsDir == <<"resources", "definitions">>

ExtrudersDir == <<"resources", "extruders">>

Dirs == {DefinitionsDir, ExtrudersDir}

Path(dir, name) == [dir |-> dir, name |-> name]

EmptyDoc == Doc(FALSE, "", FALSE, <<>>, FALSE, <<>>)

Missing == [exists |-> FALSE, doc |-> EmptyDoc]

Existing(doc) == [exists |-> TRUE, doc |-> doc]

TFloat == Field("type", PyStr(<<"f", "l", "o", "a", "t">>))

TInt == Field("type", PyStr(<<"i", "n", "t">>))

TStr == Field("type", PyStr(<<"s", "t", "r">>))

TCategory == Field("type", PyStr(<<"c", "a", "t">>))

Ten == PyStr(<<"1", "0">>)

SettingsTrees ==
    { <<Node("speed", <<TFloat, Field("default_value", PyFloat(100))>>,
             <<Entry("wall", <<TInt, Field("default_value", PyInt(50))>>)>>),
        Entry("label", <<TStr, Field("value", PyInt(10))>>)>>,
      <<Node("category", <<TCategory>>,
             <<Node("speed", <<TFloat, Field("default_value", PyInt(50))>>,
                    <<Entry("wall", <<TFloat, Field("value", PyFloat(105))>>)>>)>>)>>,
      <<Node("speed", <<TFloat, Field("default_value", PyInt(50))>>,
             <<Entry("speed", <<TInt, Field("default_value", PyInt(10))>>)>>)>>,
      <<Entry("speed", <<Field("default_value", PyInt(50))>>)>> }

MainTree == CHOOSE t \in SettingsTrees : Len(t) = 2

TargetOverrides ==
    { <<Entry("speed", <<Field("value", PyInt(50))>>)>>,
      <<Entry("speed", <<Field("value", PyInt(10))>>),
        Entry("label", <<Field("value", Ten)>>)>>,
      <<Entry("speed", <<Field("minimum_value", PyInt(0)), Field("value", PyInt(50))>>),
        Entry("wall", <<Field("default_value", PyInt(50))>>)>>,
      <<Entry("label", <<Field("value", PyInt(10))>>),
        Entry("speed", <<Field("value", Ten)>>)>> }

ParentOverrides ==
    { <<>>,
      <<Entry("speed", <<Field("default_value", PyFloat(100))>>)>>,
      <<Entry("label", <<Field("value", PyInt(10))>>)>>,
      <<Entry("wall", <<Field("value", PyInt(7))>>)>> }

TargetFiles ==
    {Missing}
    \cup {Existing(Doc(TRUE, inh, TRUE, ov, FALSE, <<>>)) :
            inh \in {"A", "B", "fdmprinter", "fdmextruder"}, ov \in TargetOverrides}
    \cup {Existing(Doc(TRUE, "fdmprinter", FALSE, <<>>, FALSE, <<>>))}

ParentFiles ==
    {Missing}
    \cup {Existing(Doc(TRUE, inh, FALSE, <<>>, FALSE, <<>>)) : inh \in {"A", "fdmprinter"}}
    \cup {Existing(Doc(TRUE, "fdmprinter", TRUE, ov, FALSE, <<>>)) : ov \in ParentOverrides}
    \cup {Existing(Doc(FALSE, "", TRUE, <<>>, FALSE, <<>>))}

PrinterFiles ==
    {Missing, Existing(EmptyDoc)}
    \cup {Existing(Doc(FALSE, "", FALSE, <<>>, TRUE, t)) : t \in SettingsTrees}
    \cup {Existing(Doc(TRUE, inh, FALSE, <<>>, TRUE, MainTree)) : inh \in {"A", "fdmextruder"}}

ExtruderFiles ==
    {Missing}
    \cup {Existing(Doc(FALSE, "", FALSE, <<>>, TRUE, t)) : t \in SettingsTrees}
    \cup {Existing(Doc(TRUE, "A", FALSE, <<>>, TRUE, MainTree))}

(* What may lie at a path, seen from a run on the target file.             *)
FileChoices(target, path) ==
    CASE path = target -> TargetFiles
      [] path = Path(target.dir, "B") -> ParentFiles
      [] path = Path(DefinitionsDir, "fdmprinter") -> PrinterFiles
      [] path = Path(DefinitionsDir, "fdmextruder") -> ExtruderFiles
      [] OTHER -> {Missing, Existing(EmptyDoc)}

Flags == {"true", "false", "absent"}

-----------------------------------------------------------------------------
VARIABLES
    file,         \* self._file: the path of the target file
    flag,         \* settings["checks"]: the rule's flag, or absent
    fs,           \* the files the run has looked at so far, by path
    definitions,  \* self._definitions
    pc,           \* where the run is: load, read, flatten, check, done, error
    loadArg,      \* the argument of the innermost _loadDefinitionFiles call
    depth,        \* how many _loadDefinitionFiles calls are on the stack
    content,      \* self._content
    idx,          \* the override checkRedefineOverride is at
    yielded,      \* what check() has yielded so far
    err           \* the exception that ended the run, or "none"

vars == <<file, flag, fs, definitions, pc, loadArg, depth, content, idx, yielded, err>>

Known(path) == \E r \in fs : r.path = path

FileAt(path) == (CHOOSE r \in fs : r.path = path).file

(* The file at path: as seen before, or as the run finds it now.           *)
Found(path) == IF Known(path) THEN {FileAt(path)} ELSE FileChoices(file, path)

Init ==
    /\ file \in {Path(d, "A") : d \in Dirs}
    /\ flag \in Flags
    /\ fs = {}
    /\ definitions = <<>>
    /\ pc = "load"
    /\ loadArg = file
    /\ depth = 1
    /\ content = <<>>
    /\ idx = 1
    /\ yielded = <<>>
    /\ err = "none"

(* Path(definition_file.stem).stem *)
DefinitionName(path) == path.name

(* A guard that forgets the documents already loaded.                      *)
ReturnsAtOnceNoStore(exists, name, defs) == ~exists

(* not definition_file.exists() or definition_name in self._definitions    *)
ReturnsAtOnce(exists, name, defs) == ~exists \/ InStore(defs, name)

(* parent_file: the two roots live in the definitions directory beside the *)
(* file's own directory, any other parent beside the file.                 *)
ParentFile(path, inherits) ==
    IF inherits \in Roots
    THEN Path(SubSeq(path.dir, 1, Len(path.dir) - 1) \o <<"definitions">>, inherits)
    ELSE Path(path.dir, inherits)

(* _loadDefinitionFiles returns at once.  The recursive call is the last   *)
(* statement of every caller, so the whole stack returns with it.          *)
LoadReturn ==
    /\ pc = "load"
    /\ \E f \in Found(loadArg) :
        /\ ReturnsAtOnce(f.exists, DefinitionName(loadArg), definitions)
        /\ fs' = fs \cup {[path |-> loadArg, file |-> f]}
    /\ pc' = "read"
    /\ depth' = 0
    /\ UNCHANGED <<file, flag, definitions, loadArg, content, idx, yielded, err>>

(* _loadDefinitionFiles loads the file and goes on to its parent.          *)
LoadFile ==
    /\ pc = "load"
    /\ \E f \in Found(loadArg) :
        /\ ~ReturnsAtOnce(f.exists, DefinitionName(loadArg), definitions)
        /\ fs' = fs \cup {[path |-> loadArg, file |-> f]}
        /\ definitions' = StoreSet(definitions, DefinitionName(loadArg), f.doc)
        /\ IF ~f.doc.hasInherits
           THEN pc' = "read" /\ depth' = 0 /\ UNCHANGED <<loadArg, err>>
           ELSE IF depth >= RecursionLimit
           THEN pc' = "error" /\ err' = "RecursionError" /\ UNCHANGED <<loadArg, depth>>
           ELSE /\ loadArg' = ParentFile(loadArg, f.doc.inherits)
                /\ depth' = depth + 1
                /\ UNCHANGED <<pc, err>>
    /\ UNCHANGED <<file, flag, content, idx, yielded>>

(* self._content = self._file.read_text() *)
ReadContent ==
    /\ pc = "read"
    /\ IF ~FileAt(file).exists
       THEN pc' = "error" /\ err' = "FileNotFoundError" /\ UNCHANGED content
       ELSE /\ \E layout \in Layouts :
                content' = Render(FileAt(file).doc, layout)
            /\ pc' = "flatten"
            /\ UNCHANGED err
    /\ UNCHANGED <<file, flag, fs, definitions, loadArg, depth, idx, yielded>>

(* What _loadBasePrinterSettings leaves under the base document's name.    *)
Flattened(base) == Doc(FALSE, "", TRUE, getSettings(base.settings, <<>>), FALSE, <<>>)

LoadBasePrinterSettings ==
    /\ pc = "flatten"
    /\ IF \/ ~InStore(definitions, base_def(definitions))
          \/ ~DocOf(definitions, base_def(definitions)).hasSettings
       THEN pc' = "error" /\ err' = "KeyError" /\ UNCHANGED definitions
       ELSE /\ definitions' =
                  StoreSet(definitions, base_def(definitions),
                           Flattened(DocOf(definitions, base_def(definitions))))
            /\ pc' = "check"
            /\ UNCHANGED err
    /\ UNCHANGED <<file, flag, fs, loadArg, depth, content, idx, yielded>>

-----------------------------------------------------------------------------
(* check() and checkRedefineOverride().                                    *)

RuleName == "diagnostic-definition-redundant-override"

(* A flag that is on unless it is set to false.                            *)
RuleEnabledByDefault(f) == f # "false"

(* self._settings["checks"].get(RuleName, False) *)
RuleEnabled(f) == f = "true"

(* definition_name and definition: the first document of the store.        *)
TargetName == definitions[1].name

Target == definitions[1].doc

(* "overrides" in definition and definition_name not in the two roots      *)
HasOverridesToCheck == Target.hasOverrides /\ TargetName \notin Roots

Replacement(offset, length, text) == [offset |-> offset, length |-> length, text |-> text]

(* A fix offered whatever the match spans.                                 *)
ReplacementsAlways(text, found) ==
    <<Replacement(found.group, found.end - found.start, <<>>)>>

(* replacements: none when the match spans several lines, else one that    *)
(* starts at the group and is as long as the whole match.                  *)
Replacements(text, found) ==
    IF SplitLines(SubSeq(text, found.start + 1, found.end)) > 1 THEN <<>>
    ELSE <<Replacement(found.group, found.end - found.start, <<>>)>>

(* What check() yields: a Diagnostic, or the None of its closing yield.    *)
Diagnostic(key, child_key, child_value, parentName, offset, replacements) ==
    [isNone |-> FALSE, name |-> RuleName, level |-> "Warning", key |-> key,
     child_key |-> child_key, child_value |-> child_value,
     parentName |-> parentName, offset |-> offset, replacements |-> replacements]

YieldNone ==
    [isNone |-> TRUE, name |-> "", level |-> "", key |-> "", child_key |-> "",
     child_value |-> PyNone, parentName |-> "", offset |-> 0, replacements |-> <<>>]

(* The loop of checkRedefineOverride has an override left to look at.      *)
InLoop ==
    /\ RuleEnabled(flag)
    /\ HasOverridesToCheck
    /\ idx <= Len(Target.overrides)

(* One turn of the loop of checkRedefineOverride: the override at idx.     *)
CheckRedefineOverride ==
    /\ pc = "check"
    /\ InLoop
    /\ LET key == Target.overrides[idx].key
           res == IF Target.hasInherits
                  THEN isDefinedInParent(definitions, key, Target.overrides[idx].fields,
                                         Target.inherits, 1)
                  ELSE Raised("KeyError")
           found == Search(content, key)
       IN  IF res.err # "none"
           THEN pc' = "error" /\ err' = res.err /\ UNCHANGED <<idx, yielded>>
           ELSE IF ~res.redundant
           THEN idx' = idx + 1 /\ UNCHANGED <<pc, err, yielded>>
           ELSE IF ~found.found
           THEN pc' = "error" /\ err' = "AttributeError" /\ UNCHANGED <<idx, yielded>>
           ELSE /\ yielded' = Append(yielded,
                        Diagnostic(key, res.child_key, res.child_value, Target.inherits,
                                   found.start, Replacements(content, found)))
                /\ idx' = idx + 1
                /\ UNCHANGED <<pc, err>>
    /\ UNCHANGED <<file, flag, fs, definitions, loadArg, depth, content>>

(* The closing bare yield of check().                                      *)
CheckFinish ==
    /\ pc = "check"
    /\ ~InLoop
    /\ yielded' = Append(yielded, YieldNone)
    /\ pc' = "done"
    /\ UNCHANGED <<file, flag, fs, definitions, loadArg, depth, content, idx, err>>

Next ==
    \/ LoadReturn
    \/ LoadFile
    \/ ReadContent
    \/ LoadBasePrinterSettings
    \/ CheckRedefineOverride
    \/ CheckFinish

Spec == Init /\ [][Next]_vars

-----------------------------------------------------------------------------
(* Vocabulary of the properties.                                           *)

Diags == {i \in 1..Len(yielded) : ~yielded[i].isNone}

(* A diagnostic for the key has been yielded.                              *)
Reported(key) == \E i \in Diags : yielded[i].key = key

(* The run is past the constructor and no exception has ended it.          *)
Constructed == pc \in {"check", "done"}

(* The loop of checkRedefineOverride has dealt with override i.            *)
Checked(i) ==
    /\ Constructed
    /\ RuleEnabled(flag)
    /\ HasOverridesToCheck
    /\ i \in 1..Len(Target.overrides)
    /\ i < idx

(* The document the target inherits from, once it is in the store.         *)
ParentLoaded == Target.hasInherits /\ InStore(definitions, Target.inherits)

Parent == DocOf(definitions, Target.inherits)

BaseOverrides == DocOf(definitions, base_def(definitions)).overrides

NumericKey(key) ==
    /\ HasKey(BaseOverrides, key)
    /\ FieldGet(Lookup(BaseOverrides, key), "type") \in TypeNumeric

(* Some proposed field of the override matches the key's record in ov.     *)
MatchesIn(ov, key, fields) ==
    /\ HasKey(ov, key)
    /\ \E i \in 1..Len(fields) :
          \E cv \in CheckValues(Lookup(ov, key), fields[i].name) :
              ValuesMatch(IsNumber(definitions, key), fields[i].name, fields[i].val, cv)

(* Some document from name on up the chain of inherits has overrides in    *)
(* which a proposed field of the key matches.                              *)
RECURSIVE ChainMatches(_, _, _, _)
ChainMatches(key, fields, name, fuel) ==
    /\ fuel > 0
    /\ InStore(definitions, name)
    /\ \/ /\ DocOf(definitions, name).hasOverrides
          /\ MatchesIn(DocOf(definitions, name).overrides, key, fields)
       \/ /\ DocOf(definitions, name).hasInherits
          /\ ChainMatches(key, fields, DocOf(definitions, name).inherits, fuel - 1)

(* The resolver judges override i of the target redundant.                 *)
Redundant(i) ==
    /\ Target.hasInherits
    /\ isDefinedInParent(definitions, Target.overrides[i].key,
                         Target.overrides[i].fields, Target.inherits, 1).redundant

(* The text the search matched for the key.                                *)
Matched(key) ==
    SubSeq(content, Search(content, key).start + 1, Search(content, key).end)

OnOneLine(text) == \A i \in 1..Len(text) : text[i] # "\n"

-----------------------------------------------------------------------------
(* C1.  In a chain A inherits B inherits C where B declares no overrides   *)
(* and C defines the key with a default_value equal to A's value, the run  *)
(* on A yields a diagnostic for the key, and the diagnostic names C, the   *)
(* document that defines the key, as the parent it is defined in.          *)
C1_SkipThroughCase(i) ==
    /\ Checked(i)
    /\ ParentLoaded
    /\ Target.inherits \notin Roots
    /\ ~Parent.hasOverrides
    /\ Parent.hasInherits
    /\ InStore(definitions, Parent.inherits)
    /\ DocOf(definitions, Parent.inherits).hasOverrides
    /\ HasKey(DocOf(definitions, Parent.inherits).overrides, Target.overrides[i].key)
    /\ HasField(Target.overrides[i], "value")
    /\ HasField(Lookup(DocOf(definitions, Parent.inherits).overrides,
                       Target.overrides[i].key), "default_value")
    /\ PyEq(FieldGet(Target.overrides[i], "value"),
            FieldGet(Lookup(DocOf(definitions, Parent.inherits).overrides,
                            Target.overrides[i].key), "default_value"))

C1_AttributedToDefiningAncestor ==
    Constructed =>
        \A i \in 1..Len(Target.overrides) :
            C1_SkipThroughCase(i) =>
                \E d \in Diags :
                    /\ yielded[d].key = Target.overrides[i].key
                    /\ yielded[d].parentName = Parent.inherits

(* C2.  For a key the flattened base types float or int, a proposed value  *)
(* of the integer n (or of the text "10") is reported as redundant against *)
(* a parent default_value of the float n.0 (of 10.0); for a key absent     *)
(* from the base or typed otherwise, a proposed text value is not reported *)
(* against parent values that are numbers.                                 *)
C2_NumericCase(i) ==
    /\ Checked(i)
    /\ ParentLoaded
    /\ Parent.hasOverrides
    /\ HasKey(Parent.overrides, Target.overrides[i].key)
    /\ NumericKey(Target.overrides[i].key)
    /\ LET v == FieldGet(Target.overrides[i], "value")
           dv == FieldGet(Lookup(Parent.overrides, Target.overrides[i].key),
                          "default_value")
       IN  /\ dv.t = "float"
           /\ \/ v.t = "int" /\ 10 * v.n = dv.n
              \/ v = Ten /\ dv = PyFloat(100)

C2_RawCase(i) ==
    /\ Checked(i)
    /\ ParentLoaded
    /\ Parent.hasOverrides
    /\ HasKey(Parent.overrides, Target.overrides[i].key)
    /\ ~NumericKey(Target.overrides[i].key)
    /\ Len(Target.overrides[i].fields) = 1
    /\ Target.overrides[i].fields[1].name = "value"
    /\ Target.overrides[i].fields[1].val.t = "str"
    /\ \E f \in ValueFields :
            HasField(Lookup(Parent.overrides, Target.overrides[i].key), f)
    /\ \A f \in ValueFields :
            FieldGet(Lookup(Parent.overrides, Target.overrides[i].key), f).t
                \in {"int", "float", "none"}

C2_NumericEquivalence ==
    Constructed =>
        \A i \in 1..Len(Target.overrides) :
            /\ C2_NumericCase(i) => Reported(Target.overrides[i].key)
            /\ C2_RawCase(i) => ~Reported(Target.overrides[i].key)

C2_Witness ==
    /\ pc = "done"
    /\ \E i \in 1..Len(Target.overrides) :
            /\ C2_NumericCase(i)
            /\ Target.overrides[i].fields = <<Field("value", PyInt(10))>>
    /\ \E i \in 1..Len(Target.overrides) :
            /\ C2_RawCase(i)
            /\ Target.overrides[i].fields = <<Field("value", Ten)>>
            /\ FieldGet(Lookup(Parent.overrides, Target.overrides[i].key), "value")
                    = PyInt(10)

(* C3.  When a file named by an inherits reference of the chain does not   *)
(* exist, the run (the constructor, then check()) raises no error.         *)
C3_MissingParent == \E r \in fs : r.path # file /\ ~r.file.exists

C3_PartialChainCompletes == C3_MissingParent => err = "none"

(* C4.  Every redundant override the loop has dealt with is reported; the  *)
(* diagnostic carries exactly one replacement, with empty text, when the   *)
(* text matched for the key lies on one line, and none when it spans more. *)
C4_SingleLineFixMultiLineNone ==
    Constructed =>
        /\ \A i \in 1..Len(Target.overrides) :
              (Checked(i) /\ Redundant(i)) => Reported(Target.overrides[i].key)
        /\ \A d \in Diags :
              IF OnOneLine(Matched(yielded[d].key))
              THEN /\ Len(yielded[d].replacements) = 1
                   /\ yielded[d].replacements[1].text = <<>>
              ELSE yielded[d].replacements = <<>>

C4_Witness ==
    /\ pc = "done"
    /\ \E d \in Diags :
            OnOneLine(Matched(yielded[d].key)) /\ Len(yielded[d].replacements) = 1
    /\ \E d \in Diags :
            ~OnOneLine(Matched(yielded[d].key)) /\ yielded[d].replacements = <<>>

(* C5.  With the rule's flag false or absent, check() yields nothing: the  *)
(* sequence it returns holds no element at all.                            *)
C5_YieldsNothing == (pc = "done" /\ flag \in {"false", "absent"}) => yielded = <<>>

(* C5, amended.  With the rule's flag false or absent, check() yields no   *)
(* diagnostic: all it yields is the None of its closing bare yield.        *)
C5_YieldsOnlyNone ==
    flag \in {"false", "absent"} =>
        /\ Diags = {}
        /\ pc = "done" => yielded = <<YieldNone>>

(* Every override of the target is redundant; the flag is off.             *)
C5_Witness ==
    /\ pc = "done"
    /\ flag \in {"false", "absent"}
    /\ HasOverridesToCheck
    /\ Len(Target.overrides) > 1
    /\ \A i \in 1..Len(Target.overrides) : Redundant(i)

(* C6.  After _loadBasePrinterSettings the keys of the base document's    *)
(* flat overrides are exactly the setting names occurring at any depth of  *)
(* its settings tree, each once; when the names of the tree are unique,    *)
(* each key maps to that setting's own record.                             *)
BaseSettings == FileAt(Path(DefinitionsDir, base_def(definitions))).doc.settings

TreeNames(tree) == {n.key : n \in TreeNodes(tree)}

UniqueNames(tree) == TreeSize(tree) = Cardinality(TreeNames(tree))

C6_FlatteningKeepsEverySetting ==
    Constructed =>
        /\ Keys(BaseOverrides) = TreeNames(BaseSettings)
        /\ Len(BaseOverrides) = Cardinality(TreeNames(BaseSettings))
        /\ UniqueNames(BaseSettings) =>
              \A n \in TreeNodes(BaseSettings) : Lookup(BaseOverrides, n.key) = n

(* A tree three levels deep, with unique names, has been flattened.        *)
C6_Witness ==
    /\ Constructed
    /\ UniqueNames(BaseSettings)
    /\ \E n \in TreeNodes(BaseSettings) :
            /\ n.hasChildren
            /\ \E i \in 1..Len(n.children) : n.children[i].hasChildren
    /\ Len(BaseOverrides) = 3

(* C7.  A call of _loadDefinitionFiles for a path whose name is already a  *)
(* key of the store returns at once: the store stays as it is and no       *)
(* parent is loaded.                                                       *)
C7_IdempotentLoad ==
    [][(pc = "load" /\ InStore(definitions, DefinitionName(loadArg)))
          => (definitions' = definitions /\ pc' # "load" /\ err' = err)]_vars

(* Such a call has been made, for a file that exists, and has returned.    *)
C7_Witness ==
    /\ pc = "read"
    /\ Known(loadArg)
    /\ FileAt(loadArg).exists
    /\ InStore(definitions, DefinitionName(loadArg))
    /\ DocOf(definitions, DefinitionName(loadArg)).hasInherits
    /\ Len(definitions) > 1

(* C8.  When the ancestor the check starts at has overrides in which no    *)
(* proposed field of the key matches, and that ancestor itself inherits,   *)
(* the check goes on one level up: the override is reported whenever some  *)
(* ancestor further up defines the key with a matching field.              *)
C8_ContinuationCase(i) ==
    /\ Checked(i)
    /\ ParentLoaded
    /\ Parent.hasOverrides
    /\ ~MatchesIn(Parent.overrides, Target.overrides[i].key, Target.overrides[i].fields)
    /\ Parent.hasInherits
    /\ ChainMatches(Target.overrides[i].key, Target.overrides[i].fields,
                    Parent.inherits, RecursionLimit)

C8_ChainContinuation ==
    pc = "done" =>
        \A i \in 1..Len(Target.overrides) :
            C8_ContinuationCase(i) => Reported(Target.overrides[i].key)

(* C9.  The replacement of a single-line redundant override deletes        *)
(* exactly the matched block: it starts at the quoted key and ends where   *)
(* the match ends.                                                         *)
C9_DeletesExactlyTheBlock ==
    \A d \in Diags :
        \A r \in 1..Len(yielded[d].replacements) :
            /\ yielded[d].replacements[r].offset = Search(content, yielded[d].key).group
            /\ yielded[d].replacements[r].offset + yielded[d].replacements[r].length
                    = Search(content, yielded[d].key).end

(* C10.  For a self-referential or circular inherits chain whose files all *)
(* exist, _loadDefinitionFiles never returns: loading is still going on,   *)
(* or has exhausted the stack.                                             *)
Circular ==
    \E i \in 1..Len(definitions) :
        /\ definitions[i].doc.hasInherits
        /\ \E j \in 1..i : definitions[j].name = definitions[i].doc.inherits

AllFilesExist == \A r \in fs : r.file.exists

C10_CycleNeverReturns ==
    (Circular /\ AllFilesExist /\ pc # "load") => err = "RecursionError"

(* C10, amended.  Loading has no check for cycles of its own, yet it ends  *)
(* on them: every nested call has put one more document into the store,    *)
(* so the depth of the recursion never exceeds the number of documents     *)
(* loaded plus one, and the stack is never exhausted.                      *)
C10_LoadDepthBounded ==
    /\ err # "RecursionError"
    /\ depth <= Len(definitions) + 1
    /\ pc = "load" => depth = Len(definitions) + 1

(* Loading has returned from a circular chain whose files all exist.       *)
C10_Witness ==
    /\ Circular
    /\ AllFilesExist
    /\ pc = "read"
    /\ Len(definitions) > 1

=============================================================================
